---- MODULE Spec2Model ----
(***************************************************************************)
(* Session lifecycle and command safety gateway of the Brandt Car API.     *)
(*                                                                         *)
(* The model follows session_manager.js (class SessionManager) and the     *)
(* Express handlers of the session-based server (unnamed/part_011).        *)
(* Node.js runs one task at a time: every action below is the code that    *)
(* runs between two suspension points (await on network I/O).  Promise     *)
(* continuations are microtasks; they are drained before the next request  *)
(* or I/O completion is served, so every request/completion action is      *)
(* guarded by NoMicrotasks and the continuations are the Resume action.    *)
(*                                                                         *)
(* Time is counted in minutes and advances in steps of TickMinutes.        *)
(***************************************************************************)
EXTENDS Integers, FiniteSets, Sequences, TLC

\* ----------------------------------------------------------------- bounds
NumReq == 2
MaxLogins == 2
MaxDispatch == 2
MaxTime == 50
TickMinutes == 25
BurstSize == 5

\* ------------------------------------------------------ program constants
\* 25 * 60 * 1000 ms and 5 * 60 * 1000 ms, in minutes
SessionLifetime == 25
ExpiringSoonWindow == 5

NoTime == -1
NoId == 0

\* ------------------------------------------------------------- error text
\* An error message is modelled by its identity and by the outcome of the
\* two substring tests the code applies to it:
\*   has401  : message.includes('401') || message.includes('unauthorized')
\*   hasSess : message.includes('session') || message.includes('authenticate')
NoError == [id |-> "none", has401 |-> FALSE, hasSess |-> FALSE]
NoActiveSessionError == [id |-> "No active session - please authenticate first", has401 |-> FALSE, hasSess |-> TRUE]
SessionExpiredError == [id |-> "Session expired - please re-authenticate", has401 |-> FALSE, hasSess |-> TRUE]
NullClientError == [id |-> "Cannot read properties of null", has401 |-> FALSE, hasSess |-> FALSE]
BackendErrors == {[id |-> "backend", has401 |-> a, hasSess |-> s] : a \in BOOLEAN, s \in BOOLEAN}
OkResult == [id |-> "ok", has401 |-> FALSE, hasSess |-> FALSE]

\* getAccountVehicles() threw, or it returned no vehicle data and the try
\* block threw itself: both end in the same catch block
LoginErrors == {"login failed"}
ExpiredDuringCommand == "Session expired during command execution"
VehicleCounts == {1}

\* -------------------------------------------------------------- endpoints
\* category.action of every route that passes checkEndpointEnabled
Endpoints ==
  { "climate.start", "climate.stop", "doors.lock", "doors.unlock",
    "trunk.lock", "trunk.unlock", "alert.lights", "alert.horn", "alert.both",
    "alert.cancel", "status.get", "location.get", "diagnostics.get",
    "charging.start", "charging.stop", "charging.profile_get",
    "charging.profile_set", "system.health", "system.capabilities" }

\* the actionKey handed to requireConfirmation in the route's middleware
\* chain; "none" when the route has no requireConfirmation middleware
ConfirmKeyOf(e) ==
  CASE e = "climate.start"  -> "climate_start"
    [] e = "doors.unlock"   -> "doors_unlock"
    [] e = "trunk.unlock"   -> "trunk_unlock"
    [] e = "alert.lights"   -> "alert_lights"
    [] e = "alert.horn"     -> "alert_horn"
    [] e = "alert.both"     -> "alert_both"
    [] e = "charging.start" -> "charging_start"
    [] e = "charging.stop"  -> "charging_stop"
    [] OTHER                -> "none"

\* keys of security.require_confirmation: the command names of the routes
ConfirmKeys ==
  { "climate_start", "climate_stop", "doors_lock", "doors_unlock",
    "trunk_lock", "trunk_unlock", "alert_lights", "alert_horn", "alert_both",
    "alert_cancel", "charging_start", "charging_stop", "charging_profile_set" }

\* every route but GET /health has authenticateApiKey in its chain
NeedsApiKey(e) == e # "system.health"

HandlerKind_allStatus(e) == "status"

\* shape of the route handler
HandlerKind(e) ==
  CASE e = "status.get"          -> "status"
    [] e = "system.health"       -> "health"
    [] e = "system.capabilities" -> "capabilities"
    [] OTHER                     -> "std"

\* the endpoints requests are drawn from
RequestEndpoints ==
  { "doors.unlock", "doors.lock", "alert.lights", "status.get", "system.health" }

\* ---------------------------------------------------------- configuration
\* config.json as shipped (the JSON document appended to the Dockerfile)
ShippedConfig ==
  [ api_endpoints |->
      [e \in Endpoints |-> e \notin {"alert.lights", "alert.horn", "alert.both"}],
    require_confirmation |->
      [k \in ConfirmKeys |-> k \in {"alert_lights", "alert_horn", "alert_both"}] ]

\* contents of config.json: a document that parses to a configuration, or
\* text that JSON.parse rejects / a file that cannot be read
ValidFile(cfg) == [valid |-> TRUE, json |-> cfg]
InvalidFile == [valid |-> FALSE, json |-> ShippedConfig]

\* the "Ultra-Safe Configuration" template of the configuration guide: a JSON
\* document with an api_endpoints section only (no security, no notifications)
UltraSafeTemplate ==
  [ api_endpoints |->
      [e \in Endpoints |->
         e \notin {"doors.unlock", "trunk.unlock", "alert.lights", "alert.horn",
                   "alert.both", "charging.start", "charging.stop",
                   "charging.profile_set"}] ]

\* the document has the security and notifications sections the middlewares
\* and generateHelpData read without a guard
hasSections(cfg) == "require_confirmation" \in DOMAIN cfg

\* config_manager.js toggleEndpoint
toggleEndpoint(cfg, e, enabled) == [cfg EXCEPT !.api_endpoints[e] = enabled]

\* config_manager.js applyPreset
applyPreset(cfg, presetName) ==
  CASE presetName = "safe" ->
         [cfg EXCEPT !.api_endpoints =
            [e \in Endpoints |->
               IF e \in {"alert.lights", "alert.horn", "alert.both", "doors.unlock",
                         "trunk.unlock", "charging.start", "charging.stop"}
               THEN FALSE ELSE cfg.api_endpoints[e]]]
    [] presetName = "balanced" ->
         [ api_endpoints |->
            [e \in Endpoints |->
               IF e \in {"alert.lights", "alert.horn", "alert.both"} THEN FALSE
               ELSE IF e \in {"doors.unlock", "trunk.unlock", "charging.start", "charging.stop"}
               THEN TRUE ELSE cfg.api_endpoints[e]],
           require_confirmation |->
            [k \in ConfirmKeys |->
               IF k \in {"doors_unlock", "trunk_unlock", "charging_start", "charging_stop"}
               THEN TRUE ELSE cfg.require_confirmation[k]] ]
    [] presetName = "full" ->
         [cfg EXCEPT !.api_endpoints = [e \in Endpoints |-> TRUE]]
    [] OTHER -> cfg

Presets == {"safe", "balanced", "full"}

isEnabled_always(cfg, e) == TRUE

\* checkEndpointEnabled: config.api_endpoints[category] && ...[category][action]
isEnabled(cfg, e) == cfg.api_endpoints[e]

confirmationMissing_unlessFlag(cfg, e, confirm) ==
  /\ ConfirmKeyOf(e) # "none"
  /\ ~cfg.require_confirmation[ConfirmKeyOf(e)]
  /\ ~confirm

\* requireConfirmation: the request is stopped when the flag is set and
\* req.body.confirm is falsy; routes without the middleware are never stopped
confirmationMissing(cfg, e, confirm) ==
  /\ ConfirmKeyOf(e) # "none"
  /\ cfg.require_confirmation[ConfirmKeyOf(e)]
  /\ ~confirm

\* ---------------------------------------------------------------- state
VARIABLES
  onstarClient,    \* SessionManager.onstarClient: handle id, NoId for null
  sessionState,    \* SessionManager.sessionState
  authPromise,     \* SessionManager.authPromise: login id, NoId for null
  settled,         \* value the last settled authPromise resolved/rejected with
  inflight,        \* logins whose getAccountVehicles() call is outstanding
  logins,          \* number of logins started against the vehicle client
  dispatched,      \* number of command functions invoked on a handle
  now,             \* wall clock, in ticks
  req,             \* per request slot: position of its handler
  config,          \* server.js `config`: the active configuration
  configFile,      \* contents of config.json on disk
  burst,           \* commands received so far by an unauthenticated gateway
  lastResp,        \* the response most recently sent
  delivered,       \* results handed to the callers of the current login
  reactivePending  \* a command hit an auth-class error and no
                   \* POST /auth/session has been served since

vars == << onstarClient, sessionState, authPromise, settled, inflight, logins,
           dispatched, now, req, config, configFile, burst, lastResp,
           delivered, reactivePending >>

smVars == << onstarClient, sessionState, authPromise, settled, inflight, logins >>

\* ----------------------------------------------------------- SessionManager
ClearedState_keepsId(err) ==
  [ isAuthenticated |-> FALSE, lastAuthTime |-> NoTime, tokenExpiry |-> NoTime,
    sessionId |-> 1, authenticationInProgress |-> FALSE, lastError |-> err,
    vehicleCount |-> 0 ]

\* sessionState as written by the constructor, clearSession and (with the
\* error) the catch block of _performAuthentication
ClearedState(err) ==
  [ isAuthenticated |-> FALSE, lastAuthTime |-> NoTime, tokenExpiry |-> NoTime,
    sessionId |-> NoId, authenticationInProgress |-> FALSE, lastError |-> err,
    vehicleCount |-> 0 ]

\* sessionState as written by the success branch of _performAuthentication
AuthenticatedState(t, sid, n) ==
  [ isAuthenticated |-> TRUE, lastAuthTime |-> t, tokenExpiry |-> t + SessionLifetime,
    sessionId |-> sid, authenticationInProgress |-> FALSE, lastError |-> "null",
    vehicleCount |-> n ]

Max_second(a, b) == b

Max(a, b) == IF a > b THEN a ELSE b

getSessionStatus(ss, t) ==
  LET isExpired == ss.tokenExpiry # NoTime /\ t > ss.tokenExpiry
      isExpiringSoon == ss.tokenExpiry # NoTime /\ (ss.tokenExpiry - t) < ExpiringSoonWindow
  IN [ isAuthenticated |-> ss.isAuthenticated /\ ~isExpired,
       sessionId |-> ss.sessionId,
       lastAuthTime |-> ss.lastAuthTime,
       tokenExpiry |-> ss.tokenExpiry,
       isExpired |-> isExpired,
       isExpiringSoon |-> isExpiringSoon,
       authenticationInProgress |-> ss.authenticationInProgress,
       lastError |-> ss.lastError,
       timeToExpiry |-> IF ss.tokenExpiry # NoTime THEN Max(0, ss.tokenExpiry - t) ELSE NoTime ]

getSessionSummary(ss, t) ==
  LET status == getSessionStatus(ss, t)
  IN [ ready |-> status.isAuthenticated /\ ~status.isExpired,
       sessionId |-> status.sessionId,
       authenticated |-> status.isAuthenticated,
       expired |-> status.isExpired,
       expiringSoon |-> status.isExpiringSoon,
       authInProgress |-> status.authenticationInProgress,
       timeToExpiry |-> status.timeToExpiry,
       lastError |-> status.lastError ]

getClient_noCheck(ss, t) == NoError

\* getClient: the error it throws, or NoError when it returns onstarClient
getClient(ss, t) ==
  LET status == getSessionStatus(ss, t)
  IN IF ~status.isAuthenticated THEN NoActiveSessionError
     ELSE IF status.isExpired THEN SessionExpiredError
     ELSE NoError


\* ------------------------------------------------------------ request slots
Idle ==
  [ pc |-> "idle", via |-> "none", owner |-> FALSE, p |-> NoId,
    endpoint |-> "none", client |-> NoId, first |-> NoError ]

AwaitAuth(via, owner, p) == [Idle EXCEPT !.pc = "awaitAuth", !.via = via, !.owner = owner, !.p = p]

AwaitCmd(pc, e, client, first) ==
  [Idle EXCEPT !.pc = pc, !.endpoint = e, !.client = client, !.first = first]

Slots == DOMAIN req

\* promise continuations that are queued and have not run yet
NoMicrotasks == \A r \in Slots : req[r].pc # "settled"

NoValue == [id |-> NoId, ok |-> FALSE, sessionId |-> NoId, expiresAt |-> NoTime, error |-> "null"]

\* a response: HTTP status, what it reports, and whether it carries the
\* remediation hint
Resp(kind, e, status, msg, sid, exp, hint) ==
  [ kind |-> kind, endpoint |-> e, status |-> status, msg |-> msg, hint |-> hint ]

NoResp == Resp("none", "none", 0, "none", NoId, NoTime, FALSE)

\* ------------------------------------------------- SessionManager.authenticate
joinsInFlight_never(ap) == FALSE

\* `if (this.authPromise) return this.authPromise;`
joinsInFlight(ap) == ap # NoId

\* authenticate() up to its first suspension: either the caller is attached
\* to the attempt in flight, or the flags are set and _performAuthentication
\* runs up to `await this.onstarClient.getAccountVehicles()`: a new client is
\* created and stored in onstarClient before the login is verified.
authenticate(r, via) ==
  IF joinsInFlight(authPromise)
  THEN /\ req' = [req EXCEPT ![r] = AwaitAuth(via, FALSE, authPromise)]
       /\ UNCHANGED << onstarClient, sessionState, authPromise, inflight, logins, delivered >>
  ELSE /\ logins < MaxLogins
       /\ sessionState' = [sessionState EXCEPT !.authenticationInProgress = TRUE,
                                               !.lastError = "null"]
       /\ logins' = logins + 1
       /\ onstarClient' = logins + 1
       /\ inflight' = inflight \cup {logins + 1}
       /\ authPromise' = logins + 1
       /\ delivered' = {}
       /\ req' = [req EXCEPT ![r] = AwaitAuth(via, TRUE, logins + 1)]

Settle_ownerOnly(p) ==
  [r \in Slots |-> IF req[r].pc = "awaitAuth" /\ req[r].p = p /\ req[r].owner
                 THEN [req[r] EXCEPT !.pc = "settled"] ELSE req[r]]

\* every caller awaiting login p has its continuation queued
Settle(p) ==
  [r \in Slots |-> IF req[r].pc = "awaitAuth" /\ req[r].p = p
                 THEN [req[r] EXCEPT !.pc = "settled"] ELSE req[r]]

\* _performAuthentication after getAccountVehicles() returned vehicle data
LoginSucceed(p, n) ==
  /\ NoMicrotasks
  /\ p \in inflight
  /\ inflight' = inflight \ {p}
  /\ sessionState' = AuthenticatedState(now, p, n)
  /\ settled' = [id |-> p, ok |-> TRUE, sessionId |-> p,
                 expiresAt |-> now + SessionLifetime, error |-> "null"]
  /\ req' = Settle(p)
  /\ UNCHANGED << onstarClient, authPromise, logins, dispatched, now, config,
                  configFile, burst, lastResp, delivered, reactivePending >>

\* _performAuthentication catch block: getAccountVehicles() threw, or
\* returned no vehicle data
LoginFail(p, err) ==
  /\ NoMicrotasks
  /\ p \in inflight
  /\ inflight' = inflight \ {p}
  /\ sessionState' = ClearedState(err)
  /\ onstarClient' = NoId
  /\ settled' = [id |-> p, ok |-> FALSE, sessionId |-> NoId,
                 expiresAt |-> NoTime, error |-> err]
  /\ req' = Settle(p)
  /\ UNCHANGED << authPromise, logins, dispatched, now, config, configFile,
                  burst, lastResp, delivered, reactivePending >>

awaitedValue_lost(s, owner) ==
  IF owner THEN s ELSE [s EXCEPT !.ok = TRUE, !.sessionId = NoId, !.expiresAt = NoTime]

\* the value a caller of authenticate() gets from the settled promise: the
\* owner through `await this.authPromise`, a joiner through the returned promise
awaitedValue(s, owner) == s

Resume_keepsPromise(r) ==
  /\ req[r].pc = "settled"
  /\ req[r].owner \/ ~\E q \in Slots : req[q].pc = "settled" /\ req[q].owner
  /\ LET v == awaitedValue(settled, req[r].owner)
     IN /\ delivered' = delivered \cup {[req |-> r, val |-> v]}
        /\ lastResp' =
             IF req[r].via = "http"
             THEN IF v.ok
                  THEN Resp("auth", "none", 200, "auth_ok", v.sessionId, v.expiresAt, FALSE)
                  ELSE Resp("auth", "none", 500, "auth_failed", NoId, NoTime, FALSE)
             ELSE Resp("authenticate", "none", 0, IF v.ok THEN "auth_ok" ELSE "auth_failed",
                       v.sessionId, v.expiresAt, FALSE)
  /\ req' = [req EXCEPT ![r] = Idle]
  /\ UNCHANGED << onstarClient, sessionState, authPromise, settled, inflight, logins,
                  dispatched, now, config, configFile, burst, reactivePending >>

\* continuation of one caller of authenticate(): the owner clears authPromise
\* (it was registered first, so it runs first); POST /auth/session then
\* answers with the result, or with 500 if the attempt threw
Resume(r) ==
  /\ req[r].pc = "settled"
  /\ req[r].owner \/ ~\E q \in Slots : req[q].pc = "settled" /\ req[q].owner
  /\ authPromise' = IF req[r].owner THEN NoId ELSE authPromise
  /\ LET v == awaitedValue(settled, req[r].owner)
     IN /\ delivered' = delivered \cup {[req |-> r, val |-> v]}
        /\ lastResp' =
             IF req[r].via = "http"
             THEN IF v.ok
                  THEN Resp("auth", "none", 200, "auth_ok", v.sessionId, v.expiresAt, FALSE)
                  ELSE Resp("auth", "none", 500, "auth_failed", NoId, NoTime, FALSE)
             ELSE Resp("authenticate", "none", 0, IF v.ok THEN "auth_ok" ELSE "auth_failed",
                       v.sessionId, v.expiresAt, FALSE)
  /\ req' = [req EXCEPT ![r] = Idle]
  /\ UNCHANGED << onstarClient, sessionState, settled, inflight, logins, dispatched,
                  now, config, configFile, burst, reactivePending >>

sessionAlreadyActive_never(status) == FALSE

\* POST /auth/session: `currentStatus.isAuthenticated && !currentStatus.isExpired`
sessionAlreadyActive(status) == status.isAuthenticated /\ ~status.isExpired

\* a direct call of SessionManager.authenticate()
DirectAuthenticate(r) ==
  /\ NoMicrotasks
  /\ req[r].pc = "idle"
  /\ authenticate(r, "direct")
  /\ UNCHANGED << settled, dispatched, now, config, configFile, burst,
                  lastResp, reactivePending >>

\* POST /auth/session
AuthSessionRequest(r, keyOk) ==
  /\ NoMicrotasks
  /\ req[r].pc = "idle"
  /\ LET currentStatus == getSessionStatus(sessionState, now)
     IN IF ~keyOk
        THEN /\ lastResp' = Resp("auth", "none", 401, "api_key", NoId, NoTime, FALSE)
             /\ UNCHANGED << onstarClient, sessionState, authPromise, inflight, logins,
                             delivered, req, reactivePending >>
        ELSE /\ reactivePending' = FALSE
             /\ IF currentStatus.authenticationInProgress
                THEN /\ lastResp' = Resp("auth", "none", 202, "in_progress",
                                         currentStatus.sessionId, NoTime, FALSE)
                     /\ UNCHANGED << onstarClient, sessionState, authPromise, inflight,
                                     logins, delivered, req >>
                ELSE IF sessionAlreadyActive(currentStatus)
                THEN /\ lastResp' = Resp("auth", "none", 200, "reuse",
                                         currentStatus.sessionId, currentStatus.tokenExpiry, FALSE)
                     /\ UNCHANGED << onstarClient, sessionState, authPromise, inflight,
                                     logins, delivered, req >>
                ELSE /\ authenticate(r, "http")
                     /\ UNCHANGED lastResp
  /\ UNCHANGED << settled, dispatched, now, config, configFile, burst >>

\* DELETE /auth/session -> SessionManager.clearSession
ClearSessionRequest(keyOk) ==
  /\ NoMicrotasks
  /\ IF ~keyOk
     THEN /\ lastResp' = Resp("clear", "none", 401, "api_key", NoId, NoTime, FALSE)
          /\ UNCHANGED << sessionState, onstarClient >>
     ELSE /\ sessionState' = ClearedState("null")
          /\ onstarClient' = NoId
          /\ lastResp' = Resp("clear", "none", 200, "cleared", NoId, NoTime, FALSE)
  /\ UNCHANGED << authPromise, settled, inflight, logins, dispatched, now, req,
                  config, configFile, burst, delivered, reactivePending >>


\* ------------------------------------------------------------------ commands
\* executeCommand catch: `error.message.includes('401') ||
\* error.message.includes('unauthorized')`
isAuthError(err) == err.has401

isSessionIssue_never(err) == FALSE

\* route handlers: `error.includes('session') || error.includes('authenticate')`
isSessionIssue(err) == err.hasSess

\* what executeCommand does before it suspends: getClient() throws, or the
\* command function is called with the cached client.  Called with null it
\* throws a TypeError inside the try block and nothing reaches the vehicle.
startError(ss, client, t) ==
  IF getClient(ss, t) # NoError THEN getClient(ss, t)
  ELSE IF client = NoId THEN NullClientError
  ELSE NoError

\* the response of a route handler to a failed executeSessionCommand
FailureResp(e, err) ==
  IF HandlerKind(e) = "health"
  THEN Resp("command", e, 200, "unhealthy", NoId, NoTime, FALSE)
  ELSE IF isSessionIssue(err)
  THEN Resp("command", e, 401, "session_required", NoId, NoTime, TRUE)
  ELSE Resp("command", e, 500, "backend_error", NoId, NoTime, FALSE)

SuccessResp(e) ==
  Resp("command", e, 200, IF HandlerKind(e) = "health" THEN "healthy" ELSE "ok",
       NoId, NoTime, FALSE)

policyDecision_whenReady(cfg, e, confirm, keyOk) ==
  IF NeedsApiKey(e) /\ ~keyOk THEN "api_key"
  ELSE IF ~isEnabled(cfg, e) /\ ~sessionState.isAuthenticated THEN "disabled"
  ELSE IF confirmationMissing(cfg, e, confirm) THEN "confirm_required"
  ELSE "allowed"

\* the policy gate of a route: authenticateApiKey, checkEndpointEnabled,
\* requireConfirmation, in the order of the middleware chain
\* ("threw": the middleware read config.notifications / config.security of a
\* configuration without these sections; Express hands the TypeError to the
\* error-handling middleware)
policyDecision(cfg, e, confirm, keyOk) ==
  IF NeedsApiKey(e) /\ ~keyOk THEN "api_key"
  ELSE IF ~isEnabled(cfg, e) THEN (IF hasSections(cfg) THEN "disabled" ELSE "threw")
  ELSE IF ConfirmKeyOf(e) # "none" /\ ~hasSections(cfg) THEN "threw"
  ELSE IF confirmationMissing(cfg, e, confirm) THEN "confirm_required"
  ELSE "allowed"

DenialResp(e, d) ==
  CASE d = "api_key"  -> Resp("command", e, 401, "api_key", NoId, NoTime, FALSE)
    [] d = "disabled" -> Resp("command", e, 403, "disabled", NoId, NoTime, FALSE)
    [] d = "threw"    -> Resp("command", e, 500, "internal_error", NoId, NoTime, FALSE)
    [] OTHER          -> Resp("command", e, 400, "confirm_required", NoId, NoTime, TRUE)

\* a command request up to its first suspension
CommandRequest(r, e, confirm, keyOk) ==
  /\ NoMicrotasks
  /\ req[r].pc = "idle"
  /\ LET d == policyDecision(config, e, confirm, keyOk)
         err == startError(sessionState, onstarClient, now)
     IN IF d # "allowed"
        THEN /\ lastResp' = DenialResp(e, d)
             /\ UNCHANGED << req, dispatched >>
        ELSE IF HandlerKind(e) = "capabilities"
        THEN /\ lastResp' = Resp("command", e, 200, "capabilities", NoId, NoTime, FALSE)
             /\ UNCHANGED << req, dispatched >>
        ELSE IF err # NoError
        THEN \* GET /status runs its second command too; it fails the same way
             /\ lastResp' = FailureResp(e, err)
             /\ UNCHANGED << req, dispatched >>
        ELSE /\ dispatched < MaxDispatch
             /\ dispatched' = dispatched + 1
             /\ req' = [req EXCEPT ![r] = AwaitCmd("awaitCmd", e, onstarClient, NoError)]
             /\ UNCHANGED lastResp
  /\ UNCHANGED << onstarClient, sessionState, authPromise, settled, inflight, logins,
                  now, config, configFile, delivered, reactivePending >>

\* a command request of the gateway
Command(r, e, confirm, keyOk) ==
  /\ CommandRequest(r, e, confirm, keyOk)
  /\ UNCHANGED burst

\* the commands of a burst: policy lets them pass; those that meet a gateway
\* without a ready session are counted
BurstEndpoints == {"doors.lock", "status.get", "system.health"}

BurstCommand(r, e) ==
  /\ CommandRequest(r, e, FALSE, TRUE)
  /\ burst' = IF /\ burst < BurstSize
                 /\ policyDecision(config, e, FALSE, TRUE) = "allowed"
                 /\ ~getSessionSummary(sessionState, now).ready
              THEN burst + 1 ELSE burst

afterCommand_keepsAuth(ss, o) ==
  IF o # OkResult /\ isAuthError(o)
  THEN [ss EXCEPT !.lastError = ExpiredDuringCommand]
  ELSE ss

\* sessionState / onstarClient after executeCommand has handled outcome o
afterCommand(ss, o) ==
  IF o # OkResult /\ isAuthError(o)
  THEN [ss EXCEPT !.isAuthenticated = FALSE, !.lastError = ExpiredDuringCommand]
  ELSE ss

clientAfterCommand(client, o) ==
  IF o # OkResult /\ isAuthError(o) THEN NoId ELSE client

\* `diagnosticsCommand.error || locationCommand.error`
firstError(a, b) == IF a # OkResult THEN a ELSE b

\* the vehicle client settles the command of request r with outcome o
CommandComplete(r, o) ==
  /\ NoMicrotasks
  /\ req[r].pc \in {"awaitCmd", "awaitCmd2"}
  /\ sessionState' = afterCommand(sessionState, o)
  /\ onstarClient' = clientAfterCommand(onstarClient, o)
  /\ reactivePending' = IF o # OkResult /\ isAuthError(o) THEN TRUE ELSE reactivePending
  /\ LET e == req[r].endpoint
         err2 == startError(sessionState', onstarClient', now)
     IN IF HandlerKind(e) = "status" /\ req[r].pc = "awaitCmd"
        THEN \* second executeSessionCommand of GET /status
             IF err2 # NoError
             THEN /\ lastResp' = FailureResp(e, firstError(o, err2))
                  /\ req' = [req EXCEPT ![r] = Idle]
                  /\ UNCHANGED dispatched
             ELSE /\ dispatched < MaxDispatch
                  /\ dispatched' = dispatched + 1
                  /\ req' = [req EXCEPT ![r] = AwaitCmd("awaitCmd2", e, onstarClient', o)]
                  /\ UNCHANGED lastResp
        ELSE /\ lastResp' =
                  LET err == IF req[r].pc = "awaitCmd2" THEN firstError(req[r].first, o) ELSE o
                  IN IF err = OkResult THEN SuccessResp(e) ELSE FailureResp(e, err)
             /\ req' = [req EXCEPT ![r] = Idle]
             /\ UNCHANGED dispatched
  /\ UNCHANGED << authPromise, settled, inflight, logins, now, config, configFile,
                  burst, delivered >>

\* ------------------------------------------------------------ configuration
\* config_manager.js preset <name>: load config.json, apply, save
PresetWrite(presetName) ==
  /\ NoMicrotasks
  /\ configFile.valid
  /\ configFile' = ValidFile(applyPreset(configFile.json, presetName))
  /\ UNCHANGED << burst, onstarClient, sessionState, authPromise, settled, inflight, logins,
                  dispatched, now, req, config, lastResp, delivered, reactivePending >>

\* config.json is left unreadable or not valid JSON by an edit
CorruptFile ==
  /\ NoMicrotasks
  /\ configFile.valid
  /\ configFile' = InvalidFile
  /\ UNCHANGED << burst, onstarClient, sessionState, authPromise, settled, inflight, logins,
                  dispatched, now, req, config, lastResp, delivered, reactivePending >>

ConfigReload_merge(keyOk) ==
  /\ NoMicrotasks
  /\ IF ~keyOk
     THEN /\ lastResp' = Resp("reload", "none", 401, "api_key", NoId, NoTime, FALSE)
          /\ UNCHANGED config
     ELSE IF ~configFile.valid
     THEN /\ lastResp' = Resp("reload", "none", 500, "reload_failed", NoId, NoTime, FALSE)
          /\ UNCHANGED config
     ELSE /\ config' = [config EXCEPT !.api_endpoints = configFile.json.api_endpoints]
          /\ lastResp' = Resp("reload", "none", 200, "reloaded", NoId, NoTime, FALSE)
  /\ UNCHANGED << onstarClient, sessionState, authPromise, settled, inflight, logins,
                  dispatched, now, req, configFile, burst, delivered,
                  reactivePending >>

\* config_manager.js enable/disable <category> <action>: load, toggle, save
ToggleWrite(e, enabled) ==
  /\ NoMicrotasks
  /\ configFile.valid
  /\ configFile' = ValidFile(toggleEndpoint(configFile.json, e, enabled))
  /\ UNCHANGED << burst, onstarClient, sessionState, authPromise, settled, inflight, logins,
                  dispatched, now, req, config, lastResp, delivered, reactivePending >>

\* config_manager.js setConfirmation(action, required):
\* `config.security.require_confirmation[action] = required`, for any action
setConfirmation(cfg, action, required) ==
  [cfg EXCEPT !.require_confirmation[action] = required]

\* `node config_manager.js confirm <action> <yes/no>` rewrites config.json
ConfirmationWrite(action, required) ==
  /\ NoMicrotasks
  /\ configFile.valid
  /\ hasSections(configFile.json)
  /\ configFile' = ValidFile(setConfirmation(configFile.json, action, required))
  /\ UNCHANGED << burst, onstarClient, sessionState, authPromise, settled, inflight, logins,
                  dispatched, now, req, config, lastResp, delivered, reactivePending >>

\* config.json is replaced by the template of the configuration guide
TemplateWrite ==
  /\ NoMicrotasks
  /\ configFile' = ValidFile(UltraSafeTemplate)
  /\ UNCHANGED << burst, onstarClient, sessionState, authPromise, settled, inflight, logins,
                  dispatched, now, req, config, lastResp, delivered, reactivePending >>

\* POST /config/reload
ConfigReload(keyOk) ==
  /\ NoMicrotasks
  /\ IF ~keyOk
     THEN /\ lastResp' = Resp("reload", "none", 401, "api_key", NoId, NoTime, FALSE)
          /\ UNCHANGED config
     ELSE IF ~configFile.valid
     THEN /\ lastResp' = Resp("reload", "none", 500, "reload_failed", NoId, NoTime, FALSE)
          /\ UNCHANGED config
     ELSE /\ config' = configFile.json
          /\ lastResp' = Resp("reload", "none", 200, "reloaded", NoId, NoTime, FALSE)
  /\ UNCHANGED << onstarClient, sessionState, authPromise, settled, inflight, logins,
                  dispatched, now, req, configFile, burst, delivered,
                  reactivePending >>

\* --------------------------------------------------------------- discovery
\* commands generateHelpData lists whether enabled or not, and the commands
\* it lists with a warning
HelpAlwaysListed ==
  { "doors.unlock", "trunk.unlock", "alert.lights", "alert.horn", "alert.both",
    "charging.start", "charging.stop" }

HighRisk_none == {}

HighRisk == {"alert.lights", "alert.horn", "alert.both"}

\* the entries whose requires_confirmation is read from
\* config.security.require_confirmation when the command is enabled
HelpReadsConfirmation == HelpAlwaysListed \cup {"climate.start"}

\* generateHelpData: the entry of each command in `commands`
generateHelpData(cfg) ==
  [e \in Endpoints |->
     IF e = "system.health"
     THEN [listed |-> TRUE, enabled |-> TRUE, requires_confirmation |-> FALSE,
           warning |-> FALSE]
     ELSE IF e = "system.capabilities"
     THEN [listed |-> FALSE, enabled |-> FALSE, requires_confirmation |-> FALSE,
           warning |-> FALSE]
     ELSE IF cfg.api_endpoints[e]
     THEN [listed |-> TRUE, enabled |-> TRUE,
           requires_confirmation |->
              (e \in HelpReadsConfirmation /\ cfg.require_confirmation[ConfirmKeyOf(e)]),
           warning |-> e \in HighRisk]
     ELSE [listed |-> e \in HelpAlwaysListed, enabled |-> FALSE,
           requires_confirmation |-> FALSE,
           warning |-> e \in HighRisk]]

\* generateHelpData throws: an enabled command whose entry reads
\* config.security.require_confirmation, in a configuration without it
helpThrows(cfg) ==
  /\ ~hasSections(cfg)
  /\ \E e \in HelpReadsConfirmation : cfg.api_endpoints[e]

\* GET /help: no API key; the async handler has no try/catch, so a throw of
\* generateHelpData rejects the handler's promise and nothing is sent
HelpRequest(keyOk) ==
  /\ NoMicrotasks
  /\ lastResp' =
       IF helpThrows(config)
       THEN Resp("help", "none", 0, "no_response", NoId, NoTime, FALSE)
       ELSE [ kind |-> "help", endpoint |-> "none", status |-> 200, msg |-> "help",
              hint |-> FALSE, commands |-> generateHelpData(config) ]
  /\ UNCHANGED << onstarClient, sessionState, authPromise, settled, inflight, logins,
                  dispatched, now, req, config, configFile, burst, delivered,
                  reactivePending >>

\* GET /contract: no API key in the route's chain
ContractRequest(keyOk) ==
  /\ NoMicrotasks
  /\ lastResp' = Resp("contract", "none", 200, "contract", NoId, NoTime, FALSE)
  /\ UNCHANGED << onstarClient, sessionState, authPromise, settled, inflight, logins,
                  dispatched, now, req, config, configFile, burst, delivered,
                  reactivePending >>

\* the fields of the `data` object of a response to a command request, as
\* sent: createResponse's data argument, plus `session`, which the session
\* monitoring middleware adds when data is an object
dataFields(resp) ==
  CASE resp.msg = "disabled" ->
         {"endpoint", "enabled", "config_file", "session"}
    [] resp.msg = "confirm_required" ->
         {"action", "requires_confirmation", "hint", "session"}
    [] resp.msg = "session_required" ->
         {"action", "endpoint", "hint", "session"}
    [] resp.msg = "unhealthy" ->
         {"status", "error", "session"}
    [] resp.msg = "healthy" ->
         {"status", "service", "version", "onstar_connection", "execution_time_ms", "session"}
    [] resp.msg = "ok" /\ resp.endpoint = "status.get" ->
         {"vehicle_data", "execution_time_ms", "commands_executed", "session"}
    [] resp.msg = "ok" ->
         {"execution_time_ms", "status", "session"}
    [] OTHER -> {}

\* --------------------------------------------------------------------- time
Tick ==
  /\ NoMicrotasks
  /\ now < MaxTime
  /\ now' = now + TickMinutes
  /\ UNCHANGED << onstarClient, sessionState, authPromise, settled, inflight, logins,
                  dispatched, req, config, configFile, burst, lastResp,
                  delivered, reactivePending >>

\* ------------------------------------------------------------ specification
Init ==
  /\ onstarClient = NoId
  /\ sessionState = ClearedState("null")
  /\ authPromise = NoId
  /\ settled = NoValue
  /\ inflight = {}
  /\ logins = 0
  /\ dispatched = 0
  /\ now = 0
  /\ req = [r \in 1..NumReq |-> Idle]
  /\ config = ShippedConfig
  /\ configFile = ValidFile(ShippedConfig)
  /\ burst = 0
  /\ lastResp = NoResp
  /\ delivered = {}
  /\ reactivePending = FALSE

\* the endpoints requests are drawn from under the shipped configuration:
\* an ordinary command, a disabled one, the two-command status route and the
\* health route
MainEndpoints == {"doors.lock", "alert.lights", "status.get", "system.health"}

Next ==
  \/ \E r \in Slots : AuthSessionRequest(r, TRUE)
  \/ \E p \in 1..MaxLogins, n \in VehicleCounts : LoginSucceed(p, n)
  \/ \E p \in 1..MaxLogins, err \in LoginErrors : LoginFail(p, err)
  \/ \E r \in Slots : Resume(r)
  \/ ClearSessionRequest(TRUE)
  \/ \E r \in Slots, e \in MainEndpoints : Command(r, e, FALSE, TRUE)
  \/ \E r \in Slots, o \in {OkResult} \cup BackendErrors : CommandComplete(r, o)
  \/ Tick

\* the gateway as reached through its HTTP routes, under the shipped
\* configuration
Spec == Init /\ [][Next]_vars

\* the gateway plus callers that use SessionManager.authenticate() directly
NextSM ==
  \/ Next
  \/ \E r \in Slots : DirectAuthenticate(r)

SpecSM == Init /\ [][NextSM]_vars

\* the session manager under fair scheduling: the vehicle client's call of a
\* login in flight eventually returns or throws (`await
\* this.onstarClient.getAccountVehicles()`), and the event loop runs the
\* queued promise continuations
LoginSettles ==
  \/ \E p \in 1..MaxLogins, n \in VehicleCounts : LoginSucceed(p, n)
  \/ \E p \in 1..MaxLogins, err \in LoginErrors : LoginFail(p, err)

Microtask == \E r \in Slots : Resume(r)

NextLive ==
  \/ \E r \in Slots : DirectAuthenticate(r)
  \/ \E r \in Slots : AuthSessionRequest(r, TRUE)
  \/ ClearSessionRequest(TRUE)
  \/ LoginSettles
  \/ Microtask
  \/ \E r \in Slots : Command(r, "doors.lock", FALSE, TRUE)
  \/ \E r \in Slots, o \in {OkResult} \cup BackendErrors : CommandComplete(r, o)
  \/ Tick

SpecLive ==
  Init /\ [][NextLive]_vars /\ WF_vars(LoginSettles) /\ WF_vars(Microtask)

\* a burst of commands against a gateway that starts unauthenticated
NextBurst ==
  \/ \E r \in Slots, e \in BurstEndpoints : BurstCommand(r, e)
  \/ \E r \in Slots : AuthSessionRequest(r, TRUE)
  \/ \E p \in 1..MaxLogins, n \in VehicleCounts : LoginSucceed(p, n)
  \/ \E p \in 1..MaxLogins, err \in LoginErrors : LoginFail(p, err)
  \/ \E r \in Slots : Resume(r)
  \/ \E r \in Slots, o \in {OkResult} \cup BackendErrors : CommandComplete(r, o)

SpecBurst == Init /\ [][NextBurst]_vars

\* the policy gate under configuration changes: config_manager.js writes
\* config.json, POST /config/reload activates it, one client sends requests
PolicySlots == {1}

NextPolicy ==
  \/ \E presetName \in Presets : PresetWrite(presetName)
  \/ CorruptFile
  \/ \E keyOk \in BOOLEAN : ConfigReload(keyOk)
  \/ \E r \in PolicySlots, e \in RequestEndpoints, confirm \in BOOLEAN, keyOk \in BOOLEAN :
        Command(r, e, confirm, keyOk)
  \/ \E r \in PolicySlots, keyOk \in BOOLEAN : AuthSessionRequest(r, keyOk)
  \/ \E keyOk \in BOOLEAN : ClearSessionRequest(keyOk)
  \/ \E p \in 1..MaxLogins, n \in VehicleCounts : LoginSucceed(p, n)
  \/ \E r \in PolicySlots : Resume(r)
  \/ \E r \in PolicySlots, o \in {OkResult} \cup BackendErrors : CommandComplete(r, o)

SpecPolicy == Init /\ [][NextPolicy]_vars


\* the configuration and discovery surface: config_manager.js and edits
\* change config.json, POST /config/reload activates it, one client sends
\* requests with and without a valid API key
SurfaceEndpoints == {"doors.lock", "doors.unlock", "alert.lights", "system.health"}

ToggleEndpoints == {"alert.lights", "system.health"}

NextSurface ==
  \/ \E e \in ToggleEndpoints, enabled \in BOOLEAN : ToggleWrite(e, enabled)
  \/ TemplateWrite
  \/ CorruptFile
  \/ \E keyOk \in BOOLEAN : ConfigReload(keyOk)
  \/ \E keyOk \in BOOLEAN : HelpRequest(keyOk)
  \/ \E keyOk \in BOOLEAN : ContractRequest(keyOk)
  \/ \E r \in PolicySlots, e \in SurfaceEndpoints, confirm \in BOOLEAN, keyOk \in BOOLEAN :
        Command(r, e, confirm, keyOk)
  \/ \E r \in PolicySlots, keyOk \in BOOLEAN : AuthSessionRequest(r, keyOk)
  \/ \E p \in 1..MaxLogins, n \in VehicleCounts : LoginSucceed(p, n)
  \/ \E r \in PolicySlots : Resume(r)
  \/ \E r \in PolicySlots, o \in {OkResult} \cup BackendErrors : CommandComplete(r, o)

SpecSurface == Init /\ [][NextSurface]_vars

\* confirmation requirements set with config_manager.js and activated by
\* POST /config/reload, one client sending commands with and without confirm
ConfirmActions == {"doors_lock", "doors_unlock", "charging_profile_set"}

ConfirmEndpoints == {"doors.lock", "doors.unlock", "charging.profile_set"}

NextConfirm ==
  \/ \E action \in ConfirmActions, required \in BOOLEAN : ConfirmationWrite(action, required)
  \/ ConfigReload(TRUE)
  \/ \E r \in PolicySlots, e \in ConfirmEndpoints, confirm \in BOOLEAN :
        Command(r, e, confirm, TRUE)
  \/ \E r \in PolicySlots : AuthSessionRequest(r, TRUE)
  \/ \E p \in 1..MaxLogins, n \in VehicleCounts : LoginSucceed(p, n)
  \/ \E r \in PolicySlots : Resume(r)
  \/ \E r \in PolicySlots, o \in {OkResult} \cup BackendErrors : CommandComplete(r, o)

SpecConfirm == Init /\ [][NextConfirm]_vars


\* ==================================================================== claims
\* the session is ready: authenticated and not past tokenExpiry
SessionReady ==
  /\ sessionState.isAuthenticated
  /\ ~(sessionState.tokenExpiry # NoTime /\ now > sessionState.tokenExpiry)

\* the configuration lets a request for e with this confirm flag pass
PolicyAllows(e, confirm) ==
  /\ config.api_endpoints[e]
  /\ ConfirmKeyOf(e) = "none" \/ ~config.require_confirmation[ConfirmKeyOf(e)] \/ confirm

\* C1: single-flight.  In every reachable state at most one login is in
\* flight against the vehicle client, it is the one authPromise names, and
\* every caller of authenticate() that is waiting waits for that one login:
\* N concurrent calls made while unauthenticated cause exactly one login.
C1_SingleFlight ==
  /\ Cardinality(inflight) <= 1
  /\ inflight # {} => inflight = {authPromise}
  /\ \A r \in Slots : req[r].pc = "awaitAuth" => req[r].p = authPromise /\ req[r].p \in inflight

\* every slot has called authenticate(), one login was started
C1_Witness ==
  /\ \A r \in Slots : req[r].pc = "awaitAuth"
  /\ \E r \in Slots : req[r].via = "direct" /\ ~req[r].owner
  /\ logins = 1
  /\ Cardinality(inflight) = 1

\* C2: all callers that joined the same login are handed the same outcome:
\* the same success (same sessionId and expiry) or the same failure.
C2_SameOutcome ==
  \A a \in delivered, b \in delivered : a.val.id = b.val.id => a.val = b.val

\* two different callers have been handed the result of one successful login
C2_Witness ==
  \E a \in delivered, b \in delivered :
     /\ a.req # b.req
     /\ a.val.id = b.val.id
     /\ a.val.ok

C5_ConfirmationGate ==
  [][ \A r \in Slots, e \in RequestEndpoints :
        (/\ config.api_endpoints[e]
         /\ ConfirmKeyOf(e) # "none"
         /\ config.require_confirmation[ConfirmKeyOf(e)]) =>
           /\ Command(r, e, FALSE, TRUE) =>
                /\ lastResp'.status = 400
                /\ lastResp'.msg = "confirm_required"
                /\ UNCHANGED << onstarClient, sessionState, authPromise, inflight,
                                logins, dispatched, req >>
           /\ Command(r, e, TRUE, TRUE) =>
                \/ /\ req'[r].pc = "awaitCmd"
                   /\ dispatched' = dispatched + 1
                \/ /\ req' = req
                   /\ lastResp'.msg \in {"session_required", "backend_error"} ]_vars

\* doors_unlock requires confirmation: the request without confirm was
\* refused, the request with confirm is in flight
C5_Witness ==
  /\ config.require_confirmation["doors_unlock"]
  /\ lastResp.endpoint = "doors.unlock"
  /\ lastResp.msg = "confirm_required"
  /\ \E r \in Slots : req[r].pc = "awaitCmd" /\ req[r].endpoint = "doors.unlock"

\* C6 as stated: a command that fails with an authentication-class error
\* leaves the handle cleared and the session not ready, and the first
\* POST /auth/session after it does not report reuse: it starts a login or
\* finds one in flight.
C6_Original ==
  [][ /\ \A r \in Slots, o \in BackendErrors :
           (o.has401 /\ CommandComplete(r, o)) => onstarClient' = NoId /\ ~SessionReady'
      /\ \A r \in Slots :
           (reactivePending /\ AuthSessionRequest(r, TRUE)) =>
              /\ lastResp'.msg # "reuse"
              /\ logins' = logins + 1 \/ inflight # {} ]_vars

C8_Original ==
  [][ \A r \in Slots, e \in MainEndpoints :
        (~SessionReady /\ config.api_endpoints[e] /\ Command(r, e, FALSE, TRUE)) =>
           /\ dispatched' = dispatched
           /\ lastResp'.status = 401
           /\ lastResp'.hint ]_vars

\* C8 amended: such a command is not dispatched; it is answered 401 "session
\* required" with the hint, except GET /health, which answers 200 "System
\* unhealthy" without the hint.
C8_SessionErrorOutcome ==
  [][ \A r \in Slots, e \in MainEndpoints :
        (~SessionReady /\ config.api_endpoints[e] /\ Command(r, e, FALSE, TRUE)) =>
           /\ UNCHANGED << dispatched, req, onstarClient, sessionState >>
           /\ lastResp' = IF e = "system.health"
                          THEN [kind |-> "command", endpoint |-> e, status |-> 200,
                                msg |-> "unhealthy", hint |-> FALSE]
                          ELSE [kind |-> "command", endpoint |-> e, status |-> 401,
                                msg |-> "session_required", hint |-> TRUE] ]_vars

\* a command met an expired session and was answered 401 with the hint
C8_Witness ==
  /\ sessionState.isAuthenticated
  /\ now > sessionState.tokenExpiry
  /\ lastResp.kind = "command"
  /\ lastResp.status = 401
  /\ lastResp.hint

\* C9: POST /auth/session on a ready session reports reuse and is a no-op: no
\* login, sessionId, tokenExpiry and the cached handle unchanged.
C9_ReuseIsNoOp ==
  [][ \A r \in Slots :
        (SessionReady /\ AuthSessionRequest(r, TRUE)) =>
           /\ lastResp'.status = 200
           /\ lastResp'.msg = "reuse"
           /\ UNCHANGED << logins, inflight, authPromise, onstarClient, sessionState, req >> ]_vars

\* reuse was reported and the one login made so far is the one in use
C9_Witness ==
  /\ lastResp.msg = "reuse"
  /\ SessionReady
  /\ logins = 1
  /\ onstarClient = 1
  /\ sessionState.sessionId = 1

\* C10 as stated: authenticate() called while the cached handle is unexpired
\* performs no login and does not replace the handle.
C10_Original ==
  [][ \A r \in Slots :
        (SessionReady /\ onstarClient # NoId /\ DirectAuthenticate(r)) =>
           logins' = logins /\ onstarClient' = onstarClient ]_vars

\* C10 amended: authenticate() has no reuse path.  A call made while a login
\* is in flight joins it and performs no login; any other call, also one made
\* while the cached handle is unexpired, starts a new login and replaces the
\* handle.
C10_JoinOrLogin ==
  [][ \A r \in Slots :
        DirectAuthenticate(r) =>
           IF authPromise # NoId
           THEN logins' = logins /\ onstarClient' = onstarClient /\ inflight' = inflight
           ELSE /\ logins' = logins + 1
                /\ onstarClient' = logins'
                /\ inflight' = inflight \cup {logins'} ]_vars

\* a second login was started on top of a session that is still ready, and a
\* further caller has joined it
C10_Witness ==
  /\ SessionReady
  /\ logins = 2
  /\ onstarClient = 2
  /\ inflight = {2}
  /\ \E r \in Slots : req[r].pc = "awaitAuth" /\ ~req[r].owner

\* C11 as stated: a POST /auth/session that arrives while a login is in
\* flight waits for that login.
C11_Original ==
  [][ \A r \in Slots :
        (inflight # {} /\ AuthSessionRequest(r, TRUE)) =>
           /\ req'[r].pc = "awaitAuth"
           /\ req'[r].p = authPromise ]_vars

\* C11 amended: a POST /auth/session that arrives while a login is in flight
\* starts no login.  While authenticationInProgress is set it is answered at
\* once with 202 "in progress" and does not wait; when the flag has been
\* reset (DELETE /auth/session during the login) it joins the login, and a
\* request that waited for a login answers 200 exactly when that login
\* succeeded and 500 "authentication failed" when it failed.
C11_InProgressOrJoin ==
  [][ \A r \in Slots :
        /\ (inflight # {} /\ AuthSessionRequest(r, TRUE)) =>
              /\ UNCHANGED << logins, inflight, authPromise, onstarClient, sessionState >>
              /\ IF sessionState.authenticationInProgress
                 THEN /\ lastResp'.status = 202
                      /\ lastResp'.msg = "in_progress"
                      /\ req' = req
                 ELSE /\ req'[r].pc = "awaitAuth"
                      /\ req'[r].p = authPromise
                      /\ ~req'[r].owner
                      /\ lastResp' = lastResp
        /\ (Resume(r) /\ req[r].via = "http") =>
              /\ lastResp'.kind = "auth"
              /\ lastResp'.status = (IF settled.ok THEN 200 ELSE 500)
              /\ settled.id = req[r].p
              /\ settled.ok <=> sessionState.sessionId = req[r].p ]_vars

\* a second POST /auth/session was answered 202 while the first one waits
C11_Witness ==
  /\ lastResp.status = 202
  /\ lastResp.msg = "in_progress"
  /\ inflight # {}
  /\ \E r \in Slots : req[r].pc = "awaitAuth" /\ req[r].owner /\ req[r].via = "http"

\* C12: invalidate is unconditional.  DELETE /auth/session, from any state,
\* leaves onstarClient null, sessionId null, tokenExpiry null and
\* isAuthenticated false when clearSession returns.
C12_InvalidateUnconditional ==
  [][ ClearSessionRequest(TRUE) =>
        /\ onstarClient' = NoId
        /\ sessionState'.sessionId = NoId
        /\ sessionState'.tokenExpiry = NoTime
        /\ ~sessionState'.isAuthenticated
        /\ lastResp'.status = 200 ]_vars

\* the session was cleared while a login was in flight
C12_Witness ==
  /\ lastResp.msg = "cleared"
  /\ inflight # {}
  /\ authPromise # NoId
  /\ onstarClient = NoId
  /\ sessionState.sessionId = NoId

\* C13 as stated: in every reachable state either the handle is null and the
\* session unauthenticated, or the handle is non-null and tokenExpiry is set.
C13_Original ==
  \/ onstarClient = NoId /\ ~sessionState.isAuthenticated
  \/ onstarClient # NoId /\ sessionState.tokenExpiry # NoTime

C15_FailurePropagates ==
  [][ /\ \A p \in 1..MaxLogins, err \in LoginErrors :
           LoginFail(p, err) =>
              /\ onstarClient' = NoId
              /\ ~sessionState'.isAuthenticated
              /\ sessionState'.sessionId = NoId
              /\ sessionState'.tokenExpiry = NoTime
              /\ sessionState'.lastError = err
              /\ ~sessionState'.authenticationInProgress
              /\ \A r \in Slots :
                    (req[r].pc = "awaitAuth" /\ req[r].p = p) => req'[r].pc = "settled"
      /\ \A r \in Slots :
           (Resume(r) /\ sessionState.sessionId # req[r].p) =>
              /\ \E d \in delivered' :
                    /\ d.req = r
                    /\ ~d.val.ok
                    /\ d.val.id = req[r].p
                    /\ d.val.error \in LoginErrors
              /\ lastResp'.msg = "auth_failed" ]_vars

\* a login failed and two callers that awaited it were handed the failure
C15_Witness ==
  /\ \E a \in delivered, b \in delivered :
        a.req # b.req /\ a.val.id = b.val.id /\ ~a.val.ok /\ ~b.val.ok
  /\ onstarClient = NoId
  /\ sessionState.lastError \in LoginErrors
  /\ inflight = {}

\* C16: lastError is cleared on success: whenever the session is
\* authenticated, lastError is null.
C16_LastErrorClearedOnSuccess ==
  sessionState.isAuthenticated => sessionState.lastError = "null"

\* a command hit an authentication-class error and a later login succeeded
C16_Witness ==
  /\ reactivePending
  /\ sessionState.isAuthenticated
  /\ sessionState.sessionId = 2
  /\ sessionState.lastError = "null"
  /\ inflight = {}

\* C17: expiry monotonicity.  Over every step that is not a successful login
\* timeToExpiry does not grow (it may lose its value when tokenExpiry is
\* cleared); it is 0 from tokenExpiry on, and expired is true exactly when the
\* clock is strictly past tokenExpiry.
C17_ExpiryMonotone ==
  /\ [] LET status == getSessionStatus(sessionState, now)
        IN /\ status.isExpired <=>
                (sessionState.tokenExpiry # NoTime /\ now > sessionState.tokenExpiry)
           /\ status.isExpired => status.timeToExpiry = 0
           /\ (sessionState.tokenExpiry # NoTime /\ now >= sessionState.tokenExpiry)
                 => status.timeToExpiry = 0
           /\ (sessionState.tokenExpiry # NoTime /\ now < sessionState.tokenExpiry)
                 => status.timeToExpiry = sessionState.tokenExpiry - now
  /\ [][ ~(\E p \in 1..MaxLogins, n \in VehicleCounts : LoginSucceed(p, n)) =>
           LET before == getSessionStatus(sessionState, now).timeToExpiry
               after == getSessionStatus(sessionState', now').timeToExpiry
           IN \/ after = NoTime
              \/ before # NoTime /\ after <= before ]_vars

\* the session has run past tokenExpiry with commands served in between
C17_Witness ==
  /\ sessionState.tokenExpiry # NoTime
  /\ now > sessionState.tokenExpiry
  /\ getSessionStatus(sessionState, now).timeToExpiry = 0
  /\ getSessionStatus(sessionState, now).isExpired
  /\ dispatched > 0

\* C18 as stated: ready holds exactly when the cached handle is non-null and
\* the clock is not past tokenExpiry.
C18_Original ==
  getSessionSummary(sessionState, now).ready <=>
     /\ onstarClient # NoId
     /\ ~(sessionState.tokenExpiry # NoTime /\ now > sessionState.tokenExpiry)

\* the decision one configuration snapshot gives for (category.action,
\* confirm), computed from the snapshot's two tables alone
SnapshotDecision(snap, e, confirm) ==
  IF ~snap.api_endpoints[e] THEN "disabled"
  ELSE IF /\ ConfirmKeyOf(e) # "none"
          /\ snap.require_confirmation[ConfirmKeyOf(e)]
          /\ ~confirm
       THEN "confirm_required"
  ELSE "allowed"

\* the decision the request of slot r met in this step: it was dispatched or
\* answered by its handler, or it was stopped by one of the two middlewares
ObservedDecision(r) ==
  IF req'[r].pc = "awaitCmd" THEN "allowed"
  ELSE IF lastResp'.status = 403 THEN "disabled"
  ELSE IF lastResp'.status = 400 THEN "confirm_required"
  ELSE "allowed"

\* C19: policy determinism.  The decision a request with a valid API key
\* meets is the one function of (active configuration, category.action,
\* confirm), whatever the session state and the requests before it; a denied
\* request changes nothing but the response, and no evaluation changes
\* Session Manager state.
C19_PolicyDeterministic ==
  [][ \A r \in Slots, e \in RequestEndpoints, confirm \in BOOLEAN :
        Command(r, e, confirm, TRUE) =>
           /\ ObservedDecision(r) = SnapshotDecision(config, e, confirm)
           /\ UNCHANGED << onstarClient, sessionState, authPromise, settled, inflight, logins >>
           /\ ObservedDecision(r) # "allowed" => UNCHANGED << req, dispatched >> ]_vars

\* the confirmation gate stopped POST /doors/unlock while a session was ready
\* and commands had been served before
C19_Witness ==
  /\ lastResp.endpoint = "doors.unlock"
  /\ lastResp.status = 400
  /\ SessionReady
  /\ onstarClient # NoId
  /\ dispatched > 0

\* C20: atomic reload.  POST /config/reload replaces the active configuration
\* as a whole by the contents of config.json, or leaves it as it was; and the
\* decision a request meets is the decision of one whole configuration, the
\* one before or the one after a reload, never enabled-ness from one and the
\* confirmation flag from the other.
C20_AtomicReload ==
  [][ /\ \A keyOk \in BOOLEAN :
           ConfigReload(keyOk) =>
              IF lastResp'.status = 200
              THEN configFile.valid /\ config' = configFile.json
              ELSE config' = config
      /\ \A r \in Slots, e \in RequestEndpoints, confirm \in BOOLEAN :
           Command(r, e, confirm, TRUE) =>
              /\ config' = config
              /\ \E snap \in {config} \cup (IF configFile.valid THEN {configFile.json} ELSE {}) :
                    ObservedDecision(r) = SnapshotDecision(snap, e, confirm) ]_vars

\* POST /doors/unlock passed the gate and is in flight; a reload has since
\* changed both its enabled flag and its confirmation flag
C20_Witness ==
  /\ \E r \in Slots : req[r].pc = "awaitCmd" /\ req[r].endpoint = "doors.unlock"
  /\ ~config.api_endpoints["doors.unlock"]
  /\ config.require_confirmation["doors_unlock"]
  /\ lastResp.kind = "reload"
  /\ lastResp.status = 200

\* C21: reloads are all-or-nothing.  A POST /config/reload that fails (bad
\* key, config.json unreadable or not valid JSON) leaves the active
\* configuration exactly as it was and answers with an error; one that
\* succeeds installs the file's contents as the whole active configuration;
\* either way nothing else changes.
C21_ReloadAllOrNothing ==
  [][ \A keyOk \in BOOLEAN :
        ConfigReload(keyOk) =>
           /\ UNCHANGED << onstarClient, sessionState, authPromise, settled, inflight,
                           logins, dispatched, now, req, configFile, delivered >>
           /\ lastResp'.kind = "reload"
           /\ IF keyOk /\ configFile.valid
              THEN config' = configFile.json /\ lastResp'.status = 200
              ELSE /\ config' = config
                   /\ lastResp'.status = (IF keyOk THEN 500 ELSE 401) ]_vars

\* a reload failed on a corrupt file and the configuration installed by an
\* earlier reload is still active
C21_Witness ==
  /\ lastResp.kind = "reload"
  /\ lastResp.status = 500
  /\ ~configFile.valid
  /\ config # ShippedConfig

\* C22 as stated: every command the gateway serves is listed by GET /help,
\* enabled is false exactly when a request would be denied as disabled, and
\* requires_confirmation is true exactly when the gateway would ask for
\* confirm.
C22_Original ==
  [][ \A keyOk \in BOOLEAN :
        (HelpRequest(keyOk) /\ lastResp'.status = 200) =>
           \A e \in Endpoints \ {"system.capabilities"} :
              /\ lastResp'.commands[e].listed
              /\ lastResp'.commands[e].enabled <=> config.api_endpoints[e]
              /\ lastResp'.commands[e].requires_confirmation <=>
                    /\ config.api_endpoints[e]
                    /\ ConfirmKeyOf(e) # "none"
                    /\ config.require_confirmation[ConfirmKeyOf(e)] ]_vars

\* C23 as stated: the response to a high-risk command carries a warning
\* whatever the outcome.
C23_Original ==
  [][ \A r \in Slots, confirm \in BOOLEAN :
        (Command(r, "alert.lights", confirm, TRUE) /\ lastResp' # lastResp) =>
           "warning" \in dataFields(lastResp') ]_vars

\* C23 amended: the warning of a high-risk command is in its GET /help entry,
\* whether the command is enabled or disabled; no response to a request for
\* the command (403 disabled, 400 confirmation required, session error,
\* backend error or success) carries a warning.
C23_WarningOnlyInHelp ==
  [][ /\ \A keyOk \in BOOLEAN :
           (HelpRequest(keyOk) /\ lastResp'.status = 200) =>
              \A e \in {"alert.lights", "alert.horn", "alert.both"} :
                 /\ lastResp'.commands[e].listed
                 /\ lastResp'.commands[e].warning
      /\ \A r \in Slots, confirm \in BOOLEAN :
           Command(r, "alert.lights", confirm, TRUE) =>
              \/ lastResp' = lastResp
              \/ /\ lastResp'.endpoint = "alert.lights"
                 /\ "warning" \notin dataFields(lastResp')
      /\ \A r \in Slots, o \in {OkResult} \cup BackendErrors :
           (CommandComplete(r, o) /\ req[r].endpoint = "alert.lights") =>
              "warning" \notin dataFields(lastResp') ]_vars

\* GET /help lists the enabled flash_lights command with its warning
C23_Witness ==
  /\ lastResp.kind = "help"
  /\ lastResp.status = 200
  /\ config.api_endpoints["alert.lights"]
  /\ lastResp.commands["alert.lights"].enabled
  /\ lastResp.commands["alert.lights"].warning

\* C24 as stated: every outcome of a command that passed the policy gate
\* carries the execution time and the session status snapshot.
C24_Original ==
  [][ /\ \A r \in Slots, o \in {OkResult} \cup BackendErrors :
           (CommandComplete(r, o) /\ req'[r].pc = "idle") =>
              {"execution_time_ms", "session"} \subseteq dataFields(lastResp')
      /\ \A r \in Slots, e \in MainEndpoints :
           (config.api_endpoints[e] /\ Command(r, e, FALSE, TRUE) /\ req' = req) =>
              {"execution_time_ms", "session"} \subseteq dataFields(lastResp') ]_vars

\* C25 as stated: no request ends without a structured outcome: none is left
\* without a response and none is answered by the error-handling middleware
\* with an internal error.
C25_Original ==
  lastResp.msg \notin {"no_response", "internal_error"}

\* C26 as stated: every endpoint but /help and /health rejects a request
\* without a valid API key with 401 and changes nothing.
C26_Original ==
  [][ /\ \A r \in Slots, e \in SurfaceEndpoints \ {"system.health"}, confirm \in BOOLEAN :
           Command(r, e, confirm, FALSE) => lastResp'.status = 401 /\ req' = req
      /\ \A r \in Slots : AuthSessionRequest(r, FALSE) => lastResp'.status = 401 /\ req' = req
      /\ ConfigReload(FALSE) => lastResp'.status = 401 /\ config' = config
      /\ ContractRequest(FALSE) => lastResp'.status = 401 ]_vars

\* C27 as stated: a command issued after tokenExpiry is rejected with
\* 'Session expired - please re-authenticate'.
C27_Original ==
  (/\ sessionState.isAuthenticated
   /\ sessionState.tokenExpiry # NoTime
   /\ now > sessionState.tokenExpiry)
     => startError(sessionState, onstarClient, now) = SessionExpiredError

\* C28: no automatic retry.  A command request starts no login; it invokes
\* its vehicle operation at most once, when it is admitted; when the
\* operation settles, with success or with any failure, the request is
\* answered and invokes nothing more, except GET /status, which then invokes
\* its second operation (location) once.
C28_NoAutomaticRetry ==
  [][ /\ \A r \in Slots, e \in MainEndpoints :
           Command(r, e, FALSE, TRUE) =>
              /\ UNCHANGED << logins, inflight, authPromise >>
              /\ \/ dispatched' = dispatched /\ req' = req
                 \/ /\ dispatched' = dispatched + 1
                    /\ req[r].pc = "idle"
                    /\ req'[r].pc = "awaitCmd"
      /\ \A r \in Slots, o \in {OkResult} \cup BackendErrors :
           CommandComplete(r, o) =>
              /\ UNCHANGED << logins, inflight, authPromise >>
              /\ \/ dispatched' = dispatched /\ req'[r].pc = "idle"
                 \/ /\ dispatched' = dispatched + 1
                    /\ req[r].endpoint = "status.get"
                    /\ req[r].pc = "awaitCmd"
                    /\ req'[r].pc = "awaitCmd2" ]_vars

\* one command was invoked once, failed with an authentication-class error
\* and was answered; nothing is in flight
C28_Witness ==
  /\ reactivePending
  /\ dispatched = 1
  /\ logins = 1
  /\ inflight = {}
  /\ \A r \in Slots : req[r].pc = "idle"
  /\ lastResp.kind = "command"
  /\ lastResp.status = 500

\* C29 as stated: after `preset safe` every risky endpoint flag in
\* config.json is false, charging.profile_set included.
C29_Original ==
  [][ PresetWrite("safe") =>
        \A e \in {"alert.lights", "alert.horn", "alert.both", "doors.unlock",
                  "trunk.unlock", "charging.start", "charging.stop",
                  "charging.profile_set"} :
           ~configFile'.json.api_endpoints[e] ]_vars

C31_LoginTerminates ==
  /\ \A r \in 1..NumReq : (req[r].pc = "awaitAuth") ~> (req[r].pc = "idle")
  /\ sessionState.authenticationInProgress ~> ~sessionState.authenticationInProgress
  /\ (authPromise # NoId) ~> (authPromise = NoId)
  /\ [](NoMicrotasks /\ authPromise # NoId => authPromise \in inflight)

\* a first login has finished and handed out its result, and a later
\* authenticate() has started a second login of its own
C31_Witness ==
  /\ settled.id = 1
  /\ logins = 2
  /\ authPromise = 2
  /\ inflight = {2}
  /\ \E r \in Slots : req[r] = AwaitAuth(req[r].via, TRUE, 2)

\* C32 as stated: when a dispatched command of a command route fails with an
\* authentication-class error of the vehicle client (message containing '401'
\* or 'unauthorized'), the route answers that call with 401 and the
\* re-authenticate hint, not with 500.
C32_Original ==
  [][ \A r \in Slots, o \in BackendErrors :
        ( /\ CommandComplete(r, o)
          /\ o.has401
          /\ req[r].endpoint # "system.health"
          /\ req[r].first = NoError
          /\ req'[r].pc = "idle" ) =>
           /\ lastResp'.status = 401
           /\ lastResp'.hint ]_vars

\* C33 as stated: a dispatched command of a command route that fails for a
\* backend reason that is not authentication-class is answered 500 without the
\* re-authenticate hint, whatever the text of the error, and the cached
\* session and handle stay as they were.
C33_Original ==
  [][ \A r \in Slots, o \in BackendErrors :
        ( /\ CommandComplete(r, o)
          /\ ~o.has401
          /\ req[r].endpoint # "system.health"
          /\ req[r].first = NoError
          /\ req'[r].pc = "idle" ) =>
           /\ lastResp'.status = 500
           /\ ~lastResp'.hint
           /\ UNCHANGED << sessionState, onstarClient >> ]_vars

\* C34 as stated: authenticationInProgress (status().authInProgress, the test
\* behind the 202 answer of POST /auth/session) is true exactly when a login
\* attempt is in flight.
C34_Original == sessionState.authenticationInProgress <=> inflight # {}

\* C35 as stated: a login that was in flight when the session was cleared
\* (clearSession reset authenticationInProgress while the login was still
\* running) does not make the session authenticated when it completes.
C35_Original ==
  [][ \A p \in 1..MaxLogins, n \in VehicleCounts :
        (LoginSucceed(p, n) /\ ~sessionState.authenticationInProgress) =>
           /\ ~sessionState'.isAuthenticated
           /\ sessionState'.sessionId = NoId
           /\ sessionState'.tokenExpiry = NoTime ]_vars

\* C36 as stated: the authentication-class failure of a command that was
\* dispatched on the handle of an earlier session leaves a newer,
\* re-established session (other sessionId, other handle) authenticated and
\* its handle in place.
C36_Original ==
  [][ \A r \in Slots, o \in BackendErrors :
        ( /\ CommandComplete(r, o)
          /\ o.has401
          /\ sessionState.isAuthenticated
          /\ onstarClient # NoId
          /\ req[r].client # onstarClient
          /\ req[r].client # sessionState.sessionId ) =>
           /\ sessionState'.isAuthenticated
           /\ onstarClient' = onstarClient ]_vars

\* C37 as stated: a command that passes the policy gate and getClient() has
\* its command function invoked with a non-null handle, the handle of the
\* login that established the current session and not that of a login still
\* in flight.
C37_Original ==
  [][ \A r \in Slots, e \in MainEndpoints :
        ( /\ Command(r, e, FALSE, TRUE)
          /\ config.api_endpoints[e]
          /\ SessionReady ) =>
           /\ onstarClient # NoId
           /\ onstarClient = sessionState.sessionId
           /\ onstarClient \notin inflight ]_vars

\* the key of security.require_confirmation named after a command route
ActionKeyOf(e) ==
  CASE e = "doors.lock"           -> "doors_lock"
    [] e = "doors.unlock"         -> "doors_unlock"
    [] e = "charging.profile_set" -> "charging_profile_set"

\* C38 as stated: while the session is ready, a request without confirm for a
\* command whose key is set to true in the active
\* security.require_confirmation is answered 400 and not dispatched.
C38_Original ==
  [][ \A r \in PolicySlots, e \in ConfirmEndpoints :
        ( /\ Command(r, e, FALSE, TRUE)
          /\ SessionReady
          /\ config.api_endpoints[e]
          /\ config.require_confirmation[ActionKeyOf(e)] ) =>
           /\ lastResp'.status = 400
           /\ dispatched' = dispatched ]_vars

====
